---- MODULE Spec2Model ----
(***************************************************************************)
(* Model of fm.go, the "simple filemailer": a goroutine drains the fsnotify *)
(* Events and Errors channels, mails every created regular file whose      *)
(* extension matches watch.filetypes, and moves it to <watch>/save.        *)
(*                                                                         *)
(* Strings (paths, extensions, patterns) are sequences of one-character    *)
(* strings, so that filepath.Base, filepath.Ext, strings.TrimPrefix and    *)
(* the regular-expression match are computed character by character.       *)
(***************************************************************************)
EXTENDS Integers, Sequences, FiniteSets, TLC

VARIABLES
  fs,            \* the file system: path -> node (NoNode, DirNode, FileNode(c))
  Events,        \* events the watcher holds for the goroutine (watcher.Events)
  Errors,        \* errors the watcher holds for the goroutine (watcher.Errors)
  eventsClosed,  \* watcher.Events has been closed
  errorsClosed,  \* watcher.Errors has been closed
  mainpc,        \* position of main(): "Add", "Scanln", "Closing", "Exited"
  pc,            \* position of the goroutine of lines 61-92
  event,         \* the goroutine's local variable event (line 64)
  filetypes,     \* viper.GetStringSlice("watch.filetypes") (line 60)
  log,           \* the lines written through package log, in order
  hist,          \* history: one record per event the goroutine received
  nSeq,          \* history: number of events the watcher has produced
  nEnv,          \* history: number of operations of the environment so far
  nErr,          \* history: number of those that are watcher errors
  call           \* a call of ExtensionMatched on its own: arguments and result

vars == <<fs, Events, Errors, eventsClosed, errorsClosed, mainpc, pc, event,
          filetypes, log, hist, nSeq, nEnv, nErr, call>>

-----------------------------------------------------------------------------
(* Bounds of the model.                                                    *)

\* what the environment does during the watch: files and directories
\* created, files removed, errors reported by the watcher
MaxEnvOps == 2

-----------------------------------------------------------------------------
(* Paths and configuration.                                                *)

\* viper.GetString("watch.folder")
watch == <<"w">>
\* the literal "save" of lines 78-79
save == <<"s", "a", "v", "e">>

\* filepath.Join of non-empty, clean elements: the elements separated by "/"
RECURSIVE Join(_)
Join(elems) ==
  IF Len(elems) = 0 THEN <<>>
  ELSE IF Len(elems) = 1 THEN elems[1]
  ELSE elems[1] \o <<"/">> \o Join(Tail(elems))

\* the index of the last "/" of path, 0 when there is none
LastSlash(path) ==
  LET S == {i \in 1..Len(path) : path[i] = "/"}
  IN  IF S = {} THEN 0 ELSE CHOOSE i \in S : \A j \in S : j <= i

\* filepath.Base of a clean, non-empty path: its last element
Base(path) == SubSeq(path, LastSlash(path) + 1, Len(path))

\* filepath.Ext: the suffix beginning at the final dot of the last element,
\* empty when the last element has no dot
Ext(path) ==
  LET D == {i \in (LastSlash(path) + 1)..Len(path) : path[i] = "."}
  IN  IF D = {} THEN <<>>
      ELSE SubSeq(path, CHOOSE i \in D : \A j \in D : j <= i, Len(path))

\* strings.TrimPrefix(s, prefix)
TrimPrefix(s, prefix) ==
  IF Len(s) >= Len(prefix) /\ SubSeq(s, 1, Len(prefix)) = prefix
  THEN SubSeq(s, Len(prefix) + 1, Len(s))
  ELSE s

\* The names the environment creates in the watched folder.
AZip == <<"a", ".", "z", "i", "p">>
BTxt == <<"b", ".", "t", "x", "t">>
FileNames == {AZip, BTxt, save}

WatchPaths == {Join(<<watch, n>>) : n \in FileNames}
SavePaths == {Join(<<watch, save, n>>) : n \in FileNames}
Paths == WatchPaths \cup SavePaths

\* The configurations of watch.filetypes the model starts from.  The
\* pattern alphabet is letters, ".", "^", "$" and "(".
FiletypeConfigs ==
  { << <<"(">>, <<"^", "z", ".", "p", "$">> >>,
    << <<"r", "a", "r">>, <<"x">>, <<"^", "$">> >> }

-----------------------------------------------------------------------------
(* regexp.MatchString, for the patterns of the model's alphabet.           *)

\* regexp.Compile fails ("missing closing )") on a "(" that is never closed;
\* the alphabet has no ")".
Malformed(pattern) == \E i \in 1..Len(pattern) : pattern[i] = "("

\* pattern[j..] matches a prefix of x[i..]; "^" and "$" are the empty-width
\* assertions begin-of-text and end-of-text, "." is any character.
RECURSIVE MatchHere(_, _, _, _)
MatchHere(pattern, j, x, i) ==
  IF j > Len(pattern) THEN TRUE
  ELSE IF pattern[j] = "^" THEN i = 1 /\ MatchHere(pattern, j + 1, x, i)
  ELSE IF pattern[j] = "$" THEN i = Len(x) + 1 /\ MatchHere(pattern, j + 1, x, i)
  ELSE IF pattern[j] = "." THEN i <= Len(x) /\ MatchHere(pattern, j + 1, x, i + 1)
  ELSE i <= Len(x) /\ x[i] = pattern[j] /\ MatchHere(pattern, j + 1, x, i + 1)

\* variant: the pattern must match from the start of x
MatchString_Anchored(pattern, x) ==
  /\ ~Malformed(pattern)
  /\ MatchHere(pattern, 1, x, 1)

\* matched, _ := regexp.MatchString(pattern, x): an unanchored search;
\* a pattern that does not compile gives (false, err)
MatchString(pattern, x) ==
  /\ ~Malformed(pattern)
  /\ \E i \in 1..(Len(x) + 1) : MatchHere(pattern, 1, x, i)

\* variant: the first pattern that does not compile ends the evaluation
ExtensionMatched_Abort(templates, ext) ==
  LET x == TrimPrefix(ext, <<".">>)
  IN  \E k \in 1..Len(templates) :
        /\ MatchString(templates[k], x)
        /\ \A j \in 1..(k - 1) : ~Malformed(templates[j])

ExtensionMatched(templates, ext) ==
  LET x == TrimPrefix(ext, <<".">>)
  IN  \E k \in 1..Len(templates) : MatchString(templates[k], x)

-----------------------------------------------------------------------------
(* The file system.                                                        *)

NoNode == [kind |-> "none", data |-> 0]
DirNode == [kind |-> "dir", data |-> 0]
FileNode(c) == [kind |-> "file", data |-> c]

\* variant: os.Stat succeeds, IsDir is not consulted
IsFile_AnyEntry(path) == fs[path].kind # "none"

\* IsFile: os.Stat succeeds and the path is not a directory
IsFile(path) == fs[path].kind = "file"

\* the directory of lines 78-79, filepath.Join(watch, "save")
SaveDir == Join(<<watch, save>>)
\* the destination of line 79, filepath.Join(watch, "save", base)
Dest(name) == Join(<<watch, save, Base(name)>>)

\* s is a prefix of t
IsPrefix(s, t) == Len(s) <= Len(t) /\ SubSeq(t, 1, Len(s)) = s

\* os.Rename(old, new) can succeed: old exists, the parent of new is a
\* directory, new is not inside old, and a file does not replace a directory
\* nor a directory a file
CanRename(old, new) ==
  /\ fs[old].kind # "none"
  /\ fs[SaveDir].kind = "dir"
  /\ ~IsPrefix(old \o <<"/">>, new)
  /\ fs[new].kind \in {"none", fs[old].kind}

-----------------------------------------------------------------------------
(* The watcher and the log.                                                *)

NoEvent == [seq |-> 0, Name |-> <<>>, Op |-> "none", by |-> "none"]

\* no call of ExtensionMatched apart from the one of line 71
NoCall == [templates |-> <<>>, ext |-> <<>>, ret |-> FALSE, done |-> TRUE]

\* the watch is established (watcher.Add returned nil) and not yet closed
Watching == mainpc = "Scanln"

\* the process is running: its goroutines take steps
Alive == mainpc # "Exited"

\* The watcher queues one event per (path, op, by) of ops, in order, while
\* the folder is watched; nothing is reported otherwise.  by (history) tells
\* whose operation the event reports: the environment's or the program's.
RECURSIVE Stamp(_, _)
Stamp(ops, n) ==
  IF ops = <<>> THEN <<>>
  ELSE <<[seq |-> n + 1, Name |-> ops[1][1], Op |-> ops[1][2],
          by |-> ops[1][3]]>>
       \o Stamp(Tail(ops), n + 1)

Emit(ops) ==
  IF Watching
  THEN /\ Events' = Events \o Stamp(ops, nSeq)
       /\ nSeq' = nSeq + Len(ops)
  ELSE UNCHANGED <<Events, nSeq>>

\* log.Println: one line, tagged (history) with the event being handled
Println(msg, base, ev) == Append(log, [msg |-> msg, base |-> base, ev |-> ev])

\* the history record opened when an event is received
NewHist(e) ==
  [seq |-> e.seq, Name |-> e.Name, Op |-> e.Op, by |-> e.by,
   isfile |-> "na", matched |-> "na", calls |-> 0, sends |-> 0,
   data |-> 0, result |-> "none", mkdir |-> "none", rename |-> "none",
   moved |-> NoNode, fin |-> e.Op # "Create"]

-----------------------------------------------------------------------------
(* Init: main() has created the watcher and started the goroutine (lines   *)
(* 52-92); the watched folder is empty but for a possible save folder.     *)

Init ==
  /\ \E s \in {NoNode, DirNode} :
       fs = [p \in Paths |-> IF p = SaveDir THEN s ELSE NoNode]
  /\ filetypes \in FiletypeConfigs
  /\ Events = <<>>
  /\ Errors = <<>>
  /\ eventsClosed = FALSE
  /\ errorsClosed = FALSE
  /\ mainpc = "Add"
  /\ pc = "Idle"
  /\ event = NoEvent
  /\ log = <<>>
  /\ hist = <<>>
  /\ nSeq = 0
  /\ nEnv = 0
  /\ nErr = 0
  /\ call = NoCall

-----------------------------------------------------------------------------
(* The environment, from the start of the watch to the operator's stop:    *)
(* other processes acting on the watched folder, and the watcher reporting *)
(* errors.                                                                 *)

\* a process puts a regular file into the watched folder, under a new name
\* or in the place of a file; its content differs from all earlier ones
EnvCreate ==
  /\ Watching
  /\ nEnv < MaxEnvOps
  /\ \E p \in WatchPaths :
       /\ fs[p].kind \in {"none", "file"}
       /\ fs' = [fs EXCEPT ![p] = FileNode(nEnv + 1)]
       /\ Emit(<< <<p, "Create", "env">> >>)
  /\ nEnv' = nEnv + 1
  /\ UNCHANGED <<Errors, eventsClosed, errorsClosed, mainpc, pc, event,
                 filetypes, log, hist, nErr, call>>

\* a process creates a directory in the watched folder
EnvMkdir ==
  /\ Watching
  /\ nEnv < MaxEnvOps
  /\ \E p \in WatchPaths :
       /\ fs[p].kind = "none"
       /\ fs' = [fs EXCEPT ![p] = DirNode]
       /\ Emit(<< <<p, "Create", "env">> >>)
  /\ nEnv' = nEnv + 1
  /\ UNCHANGED <<Errors, eventsClosed, errorsClosed, mainpc, pc, event,
                 filetypes, log, hist, nErr, call>>

\* a process removes a regular file from the watched folder
EnvRemove ==
  /\ Watching
  /\ nEnv < MaxEnvOps
  /\ \E p \in WatchPaths :
       /\ fs[p].kind = "file"
       /\ fs' = [fs EXCEPT ![p] = NoNode]
       /\ Emit(<< <<p, "Remove", "env">> >>)
  /\ nEnv' = nEnv + 1
  /\ UNCHANGED <<Errors, eventsClosed, errorsClosed, mainpc, pc, event,
                 filetypes, log, hist, nErr, call>>

\* the watcher reports an error on watcher.Errors
WatcherError ==
  /\ Watching
  /\ nEnv < MaxEnvOps
  /\ Errors' = Append(Errors, "err")
  /\ nErr' = nErr + 1
  /\ nEnv' = nEnv + 1
  /\ UNCHANGED <<fs, Events, eventsClosed, errorsClosed, mainpc, pc, event,
                 filetypes, log, hist, nSeq, call>>

-----------------------------------------------------------------------------
(* main(), lines 94-102 and the deferred watcher.Close() of line 56.       *)

\* watcher.Add(watch) returns nil; the three lines of 98-100 are logged and
\* main blocks in fmt.Scanln
AddOk ==
  /\ mainpc = "Add"
  /\ mainpc' = "Scanln"
  /\ log' = log \o << [msg |-> "watching", base |-> watch, ev |-> 0],
                      [msg |-> "addressees", base |-> <<>>, ev |-> 0],
                      [msg |-> "press", base |-> <<>>, ev |-> 0] >>
  /\ UNCHANGED <<fs, Events, Errors, eventsClosed, errorsClosed, pc, event,
                 filetypes, hist, nSeq, nEnv, nErr, call>>

\* watcher.Add(watch) fails: log.Fatal logs and exits, no deferred call runs
AddFail ==
  /\ mainpc = "Add"
  /\ mainpc' = "Exited"
  /\ log' = Println("fatal", <<>>, 0)
  /\ UNCHANGED <<fs, Events, Errors, eventsClosed, errorsClosed, pc, event,
                 filetypes, hist, nSeq, nEnv, nErr, call>>

\* the operator presses Enter: fmt.Scanln returns and main returns into the
\* deferred watcher.Close()
Stop ==
  /\ mainpc = "Scanln"
  /\ mainpc' = "Closing"
  /\ UNCHANGED <<fs, Events, Errors, eventsClosed, errorsClosed, pc, event,
                 filetypes, log, hist, nSeq, nEnv, nErr, call>>

\* watcher.Close() closes watcher.Events; what the watcher still held is
\* never delivered
CloseEvents ==
  /\ mainpc = "Closing"
  /\ ~eventsClosed
  /\ eventsClosed' = TRUE
  /\ Events' = <<>>
  /\ UNCHANGED <<fs, Errors, errorsClosed, mainpc, pc, event, filetypes, log,
                 hist, nSeq, nEnv, nErr, call>>

\* watcher.Close() closes watcher.Errors
CloseErrors ==
  /\ mainpc = "Closing"
  /\ ~errorsClosed
  /\ errorsClosed' = TRUE
  /\ Errors' = <<>>
  /\ UNCHANGED <<fs, Events, eventsClosed, mainpc, pc, event, filetypes, log,
                 hist, nSeq, nEnv, nErr, call>>

\* variant: main waits until the goroutine is at the select or has returned
ExitReady_Join == pc \in {"Idle", "Returned"}

\* lines 101-102: main does not wait for the goroutine
ExitReady == TRUE

\* main returns: the process ends, whatever the goroutine is doing
Exit ==
  /\ mainpc = "Closing"
  /\ ExitReady
  /\ mainpc' = "Exited"
  /\ UNCHANGED <<fs, Events, Errors, eventsClosed, errorsClosed, pc, event,
                 filetypes, log, hist, nSeq, nEnv, nErr, call>>

-----------------------------------------------------------------------------
(* The goroutine of lines 61-92: its control decisions and its log lines.  *)

\* variant: events are received while an earlier one is still handled
CanReceive_Always == TRUE

\* the goroutine is at the select of line 63
CanReceive == pc = "Idle"

\* variant: a matching file is moved at once, before EmailFile is called
AfterFilter_RelocateFirst(isfile, matched) ==
  IF isfile /\ matched THEN "Relocating" ELSE "Idle"

\* variant: a path for which EmailFile was called before is skipped
AfterFilter_Dedup(isfile, matched) ==
  IF /\ isfile
     /\ matched
     /\ ~\E i \in 1..(Len(hist) - 1) :
           hist[i].Name = event.Name /\ hist[i].calls > 0
  THEN "Transferring" ELSE "Idle"

\* variant: the result of ExtensionMatched is not consulted
AfterFilter_AnyExtension(isfile, matched) ==
  IF isfile THEN "Transferring" ELSE "Idle"

\* lines 68-71 and 80-83: after IsFile and ExtensionMatched, EmailFile is
\* called for a regular file that matched; otherwise back to the select
AfterFilter(isfile, matched) ==
  IF isfile /\ matched THEN "Transferring" ELSE "Idle"

\* variant: return instead of break, the goroutine ends
OnError_Return == "Returned"

\* variant: the transfer is tried again
OnError_Retry == "Transferring"

\* variant: no break, the error falls through to the relocation
OnError_FallThrough == "Relocating"

\* lines 73-76: EmailFile returned an error; break leaves the select and the
\* for loop goes on
OnError == "Idle"

\* lines 117-119: a failed AttachFile makes EmailFile return at once
AfterAttach(attached) == IF attached THEN "Sending" ELSE OnError

\* lines 128-132 and 73-78: a failed SendWithTLS makes EmailFile return the
\* error; after success the relocation starts
AfterSend(sent) == IF sent THEN "Relocating" ELSE OnError

\* variant: a watcher error ends the goroutine
AfterWatcherError_Return == "Returned"

\* lines 89-90: after a watcher error the for loop goes on
AfterWatcherError == "Idle"

\* line 81
LogIgnored(base, ev) == << [msg |-> "ignored", base |-> base, ev |-> ev] >>

\* line 74, for the errors of lines 118 and 129
LogError(kind, base, ev) == << [msg |-> kind, base |-> base, ev |-> ev] >>

\* variant: the success line is left to a later step
LogSent_None(base, ev) == << >>

\* line 77
LogSent(base, ev) == << [msg |-> "sent", base |-> base, ev |-> ev] >>

\* lines 78-79: the results of os.MkdirAll and os.Rename are dropped
LogRelocate(done, base, ev) == << >>

\* line 89
LogWatcherError == << [msg |-> "watcher", base |-> <<>>, ev |-> 0] >>

\* variant: a file already in watch/save under the name is kept
Renamed_FirstWins(f, old, new) ==
  IF f[new].kind = "none"
  THEN [f EXCEPT ![new] = f[old], ![old] = NoNode]
  ELSE [f EXCEPT ![old] = NoNode]

\* variant: the file is copied, the source stays
Renamed_Copy(f, old, new) == [f EXCEPT ![new] = f[old]]

\* what os.Rename(old, new) does to the file system when it succeeds
Renamed(f, old, new) == [f EXCEPT ![new] = f[old], ![old] = NoNode]

\* what the watcher reports of line 78: a directory created in the watched
\* folder
MkdirEvents == << <<SaveDir, "Create", "prog">> >>

\* variant: the watch covers watch/save too
RenameEvents_Recursive(old, new) ==
  << <<old, "Rename", "prog">>, <<new, "Create", "prog">> >>

\* what the watcher reports of line 79: the file left the watched folder;
\* watch/save itself is not watched (line 94 adds the one folder)
RenameEvents(old, new) == << <<old, "Rename", "prog">> >>

\* variant: the call is given up after a while
OnHang_Timeout == "Idle"

\* line 128: em.SendWithTLS is called without deadline; when it does not
\* return, the goroutine stays in the call
OnHang == "Blocked"

\* history: the handling of the event ends when the goroutine is back at
\* the select
Track(h, to) == [h EXCEPT !.fin = (to = "Idle")]

-----------------------------------------------------------------------------
(* The goroutine of lines 61-92: its steps.                                *)

\* case event, ok := <-watcher.Events with ok true (line 64), and the test
\* event.Has(fsnotify.Create) of line 68
RecvEvent ==
  /\ Alive
  /\ CanReceive
  /\ Events # <<>>
  /\ event' = Head(Events)
  /\ Events' = Tail(Events)
  /\ hist' = Append(hist, NewHist(Head(Events)))
  /\ pc' = IF Head(Events).Op = "Create" THEN "Filtering" ELSE "Idle"
  /\ UNCHANGED <<fs, Errors, eventsClosed, errorsClosed, mainpc, filetypes,
                 log, nSeq, nEnv, nErr, call>>

\* case event, ok := <-watcher.Events with ok false: return (lines 65-67)
RecvEventsClosed ==
  /\ Alive
  /\ CanReceive
  /\ eventsClosed
  /\ pc' = "Returned"
  /\ UNCHANGED <<fs, Events, Errors, eventsClosed, errorsClosed, mainpc,
                 event, filetypes, log, hist, nSeq, nEnv, nErr, call>>

\* case err, ok := <-watcher.Errors with ok true: one log line (lines 85-89)
RecvError ==
  /\ Alive
  /\ CanReceive
  /\ Errors # <<>>
  /\ Errors' = Tail(Errors)
  /\ log' = log \o LogWatcherError
  /\ pc' = AfterWatcherError
  /\ UNCHANGED <<fs, Events, eventsClosed, errorsClosed, mainpc, event,
                 filetypes, hist, nSeq, nEnv, nErr, call>>

\* case err, ok := <-watcher.Errors with ok false: return (lines 86-88)
RecvErrorsClosed ==
  /\ Alive
  /\ CanReceive
  /\ errorsClosed
  /\ pc' = "Returned"
  /\ UNCHANGED <<fs, Events, Errors, eventsClosed, errorsClosed, mainpc,
                 event, filetypes, log, hist, nSeq, nEnv, nErr, call>>

\* lines 69-71 and 80-83: IsFile, ExtensionMatched, and either the call of
\* EmailFile (which first sleeps, line 108), the "ignored" line, or nothing
Filter ==
  /\ Alive
  /\ pc = "Filtering"
  /\ LET n == Len(hist)
         isf == IsFile(event.Name)
         m == isf /\ ExtensionMatched(filetypes, Ext(event.Name))
         to == AfterFilter(isf, m)
     IN  /\ pc' = to
         /\ hist' = [hist EXCEPT ![n] =
                       Track([@ EXCEPT !.isfile = IF isf THEN "yes" ELSE "no",
                                       !.matched = IF ~isf THEN "na"
                                                   ELSE IF m THEN "yes" ELSE "no",
                                       !.calls = IF to = "Transferring"
                                                 THEN @ + 1 ELSE @], to)]
         /\ log' = IF isf /\ ~m
                   THEN log \o LogIgnored(Base(event.Name), event.seq)
                   ELSE log
  /\ UNCHANGED <<fs, Events, Errors, eventsClosed, errorsClosed, mainpc,
                 event, filetypes, nSeq, nEnv, nErr, call>>

\* EmailFile, lines 108-119: after the sleep, em.AttachFile(file) reads the
\* file; it fails when the file is gone, is a directory or cannot be read.
\* On failure EmailFile returns the error, which is logged (lines 73-75).
Attach ==
  /\ Alive
  /\ pc = "Transferring"
  /\ \E readable \in BOOLEAN :
       LET n == Len(hist)
           attached == IsFile(event.Name) /\ readable
           to == AfterAttach(attached)
       IN  /\ pc' = to
           /\ hist' = [hist EXCEPT ![n] =
                         Track([@ EXCEPT !.result = IF attached THEN @
                                                    ELSE "attach",
                                         !.data = IF attached
                                                  THEN fs[event.Name].data
                                                  ELSE @], to)]
           /\ log' = IF attached THEN log
                     ELSE log \o LogError("attach", Base(event.Name), event.seq)
  /\ UNCHANGED <<fs, Events, Errors, eventsClosed, errorsClosed, mainpc,
                 event, filetypes, nSeq, nEnv, nErr, call>>

\* EmailFile, lines 121-132: em.SendWithTLS succeeds or fails; then lines
\* 73-77: the error is logged and the select is left, or "has been sent" is
\* logged
Send ==
  /\ Alive
  /\ pc = "Sending"
  /\ \E sent \in BOOLEAN :
       LET n == Len(hist)
           to == AfterSend(sent)
       IN  /\ pc' = to
           /\ hist' = [hist EXCEPT ![n] =
                         Track([@ EXCEPT !.sends = @ + 1,
                                         !.result = IF sent THEN "ok"
                                                    ELSE "send"], to)]
           /\ log' = IF sent
                     THEN log \o LogSent(Base(event.Name), event.seq)
                     ELSE log \o LogError("send", Base(event.Name), event.seq)
  /\ UNCHANGED <<fs, Events, Errors, eventsClosed, errorsClosed, mainpc,
                 event, filetypes, nSeq, nEnv, nErr, call>>

\* EmailFile, line 128: em.SendWithTLS does not return
SendHangs ==
  /\ Alive
  /\ pc = "Sending"
  /\ pc' = OnHang
  /\ hist' = [hist EXCEPT ![Len(hist)] =
                Track([@ EXCEPT !.sends = @ + 1, !.result = "hung"], OnHang)]
  /\ UNCHANGED <<fs, Events, Errors, eventsClosed, errorsClosed, mainpc,
                 event, filetypes, log, nSeq, nEnv, nErr, call>>

\* line 78: os.MkdirAll(filepath.Join(watch, "save"), 0750), result dropped.
\* Nothing to do when the directory exists; an error when a file has the
\* name; otherwise the directory is made, unless the system refuses, and the
\* watcher sees a directory created in the watched folder.
MkdirAll ==
  /\ Alive
  /\ pc = "Relocating"
  /\ \E permitted \in BOOLEAN :
       LET n == Len(hist)
           k == fs[SaveDir].kind
       IN  IF k = "none" /\ permitted
           THEN /\ fs' = [fs EXCEPT ![SaveDir] = DirNode]
                /\ Emit(MkdirEvents)
                /\ hist' = [hist EXCEPT ![n].mkdir = "ok"]
           ELSE /\ UNCHANGED <<fs, Events, nSeq>>
                /\ hist' = [hist EXCEPT ![n].mkdir =
                              IF k = "dir" THEN "ok" ELSE "fail"]
  /\ pc' = "Renaming"
  /\ UNCHANGED <<Errors, eventsClosed, errorsClosed, mainpc, event, filetypes,
                 log, nEnv, nErr, call>>

\* line 79: os.Rename(event.Name, filepath.Join(watch, "save", base)), result
\* dropped.  The watcher sees the file leave the watched folder.  The select
\* statement ends and the for loop goes on.
Rename ==
  /\ Alive
  /\ pc = "Renaming"
  /\ \E permitted \in BOOLEAN :
       LET n == Len(hist)
           old == event.Name
           new == Dest(event.Name)
           done == CanRename(old, new) /\ permitted
       IN  /\ IF done
              THEN /\ fs' = Renamed(fs, old, new)
                   /\ Emit(RenameEvents(old, new))
              ELSE UNCHANGED <<fs, Events, nSeq>>
           /\ hist' = [hist EXCEPT ![n] =
                         Track([@ EXCEPT !.rename = IF done THEN "ok"
                                                    ELSE "fail",
                                         !.moved = IF done THEN fs[old]
                                                   ELSE @], "Idle")]
           /\ log' = log \o LogRelocate(done, Base(event.Name), event.seq)
  /\ pc' = "Idle"
  /\ UNCHANGED <<Errors, eventsClosed, errorsClosed, mainpc, event, filetypes,
                 nEnv, nErr, call>>

-----------------------------------------------------------------------------

Environment == EnvCreate \/ EnvMkdir \/ EnvRemove \/ WatcherError

Main == AddOk \/ AddFail \/ Stop \/ CloseEvents \/ CloseErrors \/ Exit

Loop ==
  \/ RecvEvent \/ RecvEventsClosed \/ RecvError \/ RecvErrorsClosed
  \/ Filter \/ Attach \/ Send \/ SendHangs \/ MkdirAll \/ Rename

Next == Environment \/ Main \/ Loop

Spec == Init /\ [][Next]_vars

\* the steps of the goroutine while every EmailFile call returns and both
\* channels are open
LoopLive ==
  RecvEvent \/ RecvError \/ Filter \/ Attach \/ Send \/ MkdirAll \/ Rename

\* the program while the operator does not stop it
LiveNext == Environment \/ AddOk \/ AddFail \/ LoopLive

\* the goroutine of line 61 is scheduled as long as it has a step to take
LiveSpec == Init /\ [][LiveNext]_vars /\ WF_vars(LoopLive)

-----------------------------------------------------------------------------
(* ExtensionMatched on its own (lines 143-151): one call, its arguments    *)
(* drawn from the pattern lists and extensions below.                      *)

\* longest list of patterns tried
MaxTemplates == 2

\* patterns: empty, literals, anchored, any character, not compiling
Patterns ==
  { <<>>, <<"z">>, <<"i", "p">>, <<"^", "z">>, <<"p", "$">>, <<"^", "$">>,
    <<".">>, <<"(">>, <<"^", "z", ".", "p", "$">> }

TemplateLists == UNION {[1..k -> Patterns] : k \in 0..MaxTemplates}

\* extensions: as filepath.Ext gives them and otherwise
Extensions ==
  { <<>>, <<".">>, <<".", "z">>, <<".", ".", "z">>, <<"z", "i", "p">>,
    <<".", "z", "i", "p">>, <<".", "p">>, <<".", "z", "a", "p">> }

MatchInit ==
  /\ fs = [p \in Paths |-> NoNode]
  /\ filetypes = <<>>
  /\ Events = <<>>
  /\ Errors = <<>>
  /\ eventsClosed = FALSE
  /\ errorsClosed = FALSE
  /\ mainpc = "Add"
  /\ pc = "Idle"
  /\ event = NoEvent
  /\ log = <<>>
  /\ hist = <<>>
  /\ nSeq = 0
  /\ nEnv = 0
  /\ nErr = 0
  /\ call \in [templates : TemplateLists, ext : Extensions,
               ret : {FALSE}, done : {FALSE}]

\* the call returns
CallExtensionMatched ==
  /\ ~call.done
  /\ call' = [call EXCEPT !.ret = ExtensionMatched(call.templates, call.ext),
                          !.done = TRUE]
  /\ UNCHANGED <<fs, Events, Errors, eventsClosed, errorsClosed, mainpc, pc,
                 event, filetypes, log, hist, nSeq, nEnv, nErr>>

MatchNext == CallExtensionMatched

MatchSpec == MatchInit /\ [][MatchNext]_vars

-----------------------------------------------------------------------------
(* Properties.                                                             *)

\* the history record of the event being handled, or handled last
Last == hist[Len(hist)]

\* the processed area: where a file named as path is expected after its move
Processed(path) == Join(<<watch, save, Base(path)>>)

\* the log lines written while event number s was handled
LinesOf(s) == {k \in 1..Len(log) : log[k].ev = s}

\* a step of the program, not of the environment
ProgramStep == nEnv' = nEnv

\* C1 as stated: for every file event handled, the file is relocated to
\* watch/save if and only if the transfer of that file succeeded.
C1_RelocatedIffTransferred ==
  \A i \in 1..Len(hist) :
    hist[i].fin => (hist[i].rename = "ok" <=> hist[i].result = "ok")

\* C1 amended: a file is relocated only if its transfer succeeded, the
\* relocation is attempted if and only if the transfer succeeded, and
\* everything in watch/save was put there for an event whose transfer
\* succeeded; the move itself may fail.
C1_RelocatedOnlyIfTransferred ==
  /\ \A i \in 1..Len(hist) :
       /\ hist[i].rename = "ok" => hist[i].result = "ok"
       /\ hist[i].fin => (hist[i].rename # "none" <=> hist[i].result = "ok")
  /\ \A p \in SavePaths :
       fs[p].kind # "none" =>
         \E i \in 1..Len(hist) :
           /\ hist[i].result = "ok"
           /\ hist[i].rename = "ok"
           /\ Processed(hist[i].Name) = p

\* one event's file was sent and moved, another's was sent and not moved
C1_Witness ==
  \E i, j \in 1..Len(hist) :
    /\ hist[i].fin /\ hist[i].result = "ok" /\ hist[i].rename = "ok"
    /\ hist[j].fin /\ hist[j].result = "ok" /\ hist[j].rename = "fail"

\* C2: the program changes the file system, and runs os.MkdirAll and
\* os.Rename, only in the relocation of the event whose EmailFile call has
\* returned nil, os.Rename after os.MkdirAll.
C2_RelocateAfterTransfer ==
  [][ (ProgramStep /\ (fs' # fs \/ pc \in {"Relocating", "Renaming"}))
        => /\ Len(hist) > 0
           /\ Len(hist') = Len(hist)
           /\ Last.seq = event.seq
           /\ Last.calls = 1
           /\ Last.sends = 1
           /\ Last.result = "ok"
           /\ pc = "Relocating" => Last.mkdir = "none" /\ Last.rename = "none"
           /\ pc = "Renaming" => Last.mkdir # "none" /\ Last.rename = "none"
           /\ pc \in {"Relocating", "Renaming"} ]_vars

\* a sent file is about to be moved into the directory made for it
C2_Witness ==
  /\ pc = "Renaming"
  /\ Last.result = "ok"
  /\ Last.mkdir = "ok"
  /\ fs[event.Name].kind = "file"
  /\ fs[SaveDir].kind = "dir"

\* a created regular file whose extension matches no pattern
Unmatched(path) == ~ExtensionMatched(filetypes, Ext(path))

\* C3: for a file whose extension does not match, EmailFile is never called
\* and the file is never relocated: only the environment takes it from its
\* path, and nothing of its name appears in watch/save.
C3_UnmatchedUntouched ==
  /\ [](\A i \in 1..Len(hist) :
          Unmatched(hist[i].Name) =>
            /\ hist[i].calls = 0 /\ hist[i].sends = 0
            /\ hist[i].result = "none"
            /\ hist[i].mkdir = "none" /\ hist[i].rename = "none")
  /\ [](\A p \in WatchPaths :
          Unmatched(p) => fs[Processed(p)].kind = "none")
  /\ [][ \A p \in WatchPaths :
           (Unmatched(p) /\ fs[p].kind = "file" /\ fs'[p] # fs[p])
             => ~ProgramStep ]_vars

\* an unmatched file was skipped and is still there, after another was sent
C3_Witness ==
  \E i, j \in 1..Len(hist) :
    /\ hist[i].fin /\ hist[i].isfile = "yes" /\ hist[i].matched = "no"
    /\ Unmatched(hist[i].Name)
    /\ fs[hist[i].Name].kind = "file"
    /\ \E k \in LinesOf(hist[i].seq) : log[k].msg = "ignored"
    /\ hist[j].result = "ok"

\* the transfer of event i failed, in AttachFile or in SendWithTLS
Failed(i) == hist[i].result \in {"attach", "send"}

\* the step in which the handling of the current event gets result r
Resulting(R) ==
  /\ Len(hist) > 0
  /\ Len(hist') = Len(hist)
  /\ Last.result = "none"
  /\ hist'[Len(hist)].result \in R

\* C4: when the transfer fails, the step that fails changes no file, queues
\* nothing (no retry) and leaves the goroutine at the select; the event got
\* one EmailFile call, no relocation and one log line, the failure.
C4_TransferFailureIsLocal ==
  /\ [](\A i \in 1..Len(hist) :
          Failed(i) =>
            /\ hist[i].fin
            /\ hist[i].calls = 1 /\ hist[i].sends <= 1
            /\ hist[i].mkdir = "none" /\ hist[i].rename = "none"
            /\ Cardinality(LinesOf(hist[i].seq)) = 1
            /\ \A k \in LinesOf(hist[i].seq) : log[k].msg = hist[i].result)
  /\ [][ Resulting({"attach", "send"})
           => /\ fs' = fs
              /\ Events' = Events
              /\ pc' = "Idle" ]_vars

\* a transfer failed and a later event was handled and its file sent
C4_Witness ==
  \E i, j \in 1..Len(hist) :
    /\ i < j
    /\ Failed(i)
    /\ fs[hist[i].Name].kind = "file"
    /\ hist[j].fin /\ hist[j].result = "ok"

\* the relocation of event i failed after its transfer had succeeded
RelocateFailed(i) ==
  /\ hist[i].result = "ok"
  /\ hist[i].mkdir = "fail" \/ hist[i].rename = "fail"

\* C5: when os.MkdirAll or os.Rename fails after a successful transfer, the
\* log holds the "has been sent" line of the event and no other line for
\* it, no line is ever taken back, and the failing os.Rename leaves the
\* goroutine at the select.
C5_SentStaysReported ==
  /\ [](\A i \in 1..Len(hist) :
          RelocateFailed(i) =>
            /\ \E k \in LinesOf(hist[i].seq) : log[k].msg = "sent"
            /\ \A k \in LinesOf(hist[i].seq) : log[k].msg = "sent"
            /\ hist[i].rename = "fail" => hist[i].fin)
  /\ [][ IsPrefix(log, log') ]_vars
  /\ [][ (Len(hist) > 0 /\ Len(hist') = Len(hist) /\ Last.rename = "none"
          /\ hist'[Len(hist)].rename = "fail")
           => pc' = "Idle" /\ fs' = fs ]_vars

\* a file was sent, its move failed, and the file is still in the folder
C5_Witness ==
  \E i \in 1..Len(hist) :
    /\ RelocateFailed(i)
    /\ hist[i].fin
    /\ hist[i].rename = "fail"
    /\ fs[hist[i].Name].kind = "file"

\* C6 as stated: every terminal outcome writes exactly one log line saying
\* so: sent, skipped by extension, transfer failed, relocate failed; and
\* every watcher error received writes one.
C6_EveryOutcomeLogged ==
  /\ \A i \in 1..Len(hist) :
       hist[i].fin =>
         LET L == LinesOf(hist[i].seq)
             N(m) == Cardinality({k \in L : log[k].msg = m})
         IN  /\ hist[i].matched = "no" => Cardinality(L) = 1 /\ N("ignored") = 1
             /\ Failed(i) => Cardinality(L) = 1 /\ N(hist[i].result) = 1
             /\ hist[i].result = "ok" => N("sent") = 1
             /\ RelocateFailed(i) => N("relocate") = 1
  /\ ~errorsClosed =>
       Cardinality({k \in 1..Len(log) : log[k].msg = "watcher"})
         = nErr - Len(Errors)

\* C7: the goroutine receives the events in the order the watcher produced
\* them, each once and none skipped, and handles one at a time: every event
\* before the last received is back at the select, and the events produced
\* meanwhile wait in order.
C7_OneAtATimeInOrder ==
  /\ \A i \in 1..Len(hist) : hist[i].seq = i
  /\ \A i \in 1..(Len(hist) - 1) : hist[i].fin
  /\ \A k \in 1..Len(Events) : Events[k].seq = Len(hist) + k
  /\ ~eventsClosed => nSeq = Len(hist) + Len(Events)
  /\ Len(hist) > 0 =>
       /\ Last.seq = event.seq
       /\ Last.fin <=> pc \in {"Idle", "Returned"}

\* an event is in transfer while an earlier one is done and a later one,
\* produced meanwhile, waits
C7_Witness ==
  /\ pc = "Sending"
  /\ Len(hist) >= 2
  /\ hist[1].fin
  /\ Events # <<>>

\* C8: the goroutine returns only from the select and only when
\* watcher.Events or watcher.Errors is closed; a watcher error is logged in
\* one line and the goroutine stays in the loop.
C8_ReturnsOnlyWhenClosed ==
  /\ [](pc = "Returned" => eventsClosed \/ errorsClosed)
  /\ [][ (pc # "Returned" /\ pc' = "Returned")
           => /\ pc = "Idle"
              /\ eventsClosed \/ errorsClosed
              /\ UNCHANGED <<fs, log, hist>> ]_vars
  /\ [][ (Len(Errors') < Len(Errors) /\ ~errorsClosed')
           => /\ log' = Append(log, [msg |-> "watcher", base |-> <<>>, ev |-> 0])
              /\ pc = "Idle" /\ pc' = "Idle" ]_vars

\* the goroutine outlived a watcher error and a failed transfer and returned
\* when a channel was closed
C8_Witness ==
  /\ pc = "Returned"
  /\ \E k \in 1..Len(log) : log[k].msg = "watcher"
  /\ \E i \in 1..Len(hist) : Failed(i)

\* the step that ends the handling of an event whose transfer succeeded
EndsSent ==
  /\ Len(hist) > 0
  /\ Len(hist') = Len(hist)
  /\ ~Last.fin
  /\ hist'[Len(hist)].fin
  /\ Last.result = "ok"

\* C9 as stated: after the event of a matching file whose transfer
\* succeeded is processed, the file is in watch/save under its base name and
\* no longer at its source path.
C9_SentFileIsMoved ==
  [][ EndsSent
        => /\ fs'[Processed(Last.Name)].kind = "file"
           /\ fs'[Last.Name].kind = "none" ]_vars

\* C9 amended: when the transfer succeeded and os.Rename succeeds, what was
\* at the source path is in watch/save under its base name, with its
\* content, the source path no longer exists and nothing else changed; when
\* os.Rename fails the file system is as it was.
C9_MovedWhenRenameSucceeds ==
  [][ EndsSent
        => IF hist'[Len(hist)].rename = "ok"
           THEN /\ fs[Last.Name].kind # "none"
                /\ fs'[Processed(Last.Name)] = fs[Last.Name]
                /\ fs'[Last.Name] = NoNode
                /\ \A p \in Paths \ {Last.Name, Processed(Last.Name)} :
                     fs'[p] = fs[p]
           ELSE fs' = fs ]_vars

\* a sent file is in watch/save and gone from the watched folder
C9_Witness ==
  \E i \in 1..Len(hist) :
    /\ hist[i].fin /\ hist[i].result = "ok" /\ hist[i].rename = "ok"
    /\ fs[Processed(hist[i].Name)].kind = "file"
    /\ fs[hist[i].Name].kind = "none"

\* C10 as stated: every EmailFile call makes exactly one transmission
\* attempt, and every created event with a matching extension causes exactly
\* one call.
C10_OneAttemptPerCall ==
  \A i \in 1..Len(hist) :
    hist[i].fin =>
      /\ hist[i].sends = hist[i].calls
      /\ (hist[i].Op = "Create" /\ ~Unmatched(hist[i].Name)) => hist[i].calls = 1

\* C10 amended: every EmailFile call makes at most one transmission attempt
\* and never retries: one when AttachFile succeeded, none when it failed;
\* every created event whose path is a regular file with a matching
\* extension causes exactly one call, and no other event causes a call.
C10_AtMostOneAttemptPerCall ==
  \A i \in 1..Len(hist) :
    /\ hist[i].calls <= 1
    /\ hist[i].sends <= hist[i].calls
    /\ hist[i].calls = 1 <=>
         (hist[i].Op = "Create" /\ hist[i].isfile = "yes"
          /\ ~Unmatched(hist[i].Name))
    /\ (hist[i].fin /\ hist[i].calls = 1) =>
         /\ hist[i].sends = 1 <=> hist[i].result \in {"ok", "send"}
         /\ hist[i].sends = 0 <=> hist[i].result = "attach"

\* one call made no attempt (the attachment failed), another call made one
\* attempt that failed, and a matching created directory caused no call
C10_Witness ==
  \E i, j \in 1..Len(hist) :
    /\ hist[i].fin /\ hist[i].calls = 1 /\ hist[i].sends = 0
    /\ hist[j].fin /\ hist[j].calls = 1 /\ hist[j].sends = 1
    /\ hist[j].result = "send"

\* the step of lines 69-83 for the event being handled
Filtered == pc = "Filtering" /\ hist' # hist

\* C11: only a created event whose path is a regular file is filtered and
\* may be transferred; an event of another kind, and a created event whose
\* path is a directory or is gone, causes no EmailFile call, no relocation
\* and no log line, and changes no file.
C11_OnlyCreatedRegularFiles ==
  /\ [](\A i \in 1..Len(hist) :
          (hist[i].Op # "Create" \/ hist[i].isfile = "no") =>
            /\ hist[i].fin
            /\ hist[i].matched = "na"
            /\ hist[i].calls = 0 /\ hist[i].sends = 0
            /\ hist[i].result = "none"
            /\ hist[i].mkdir = "none" /\ hist[i].rename = "none"
            /\ LinesOf(hist[i].seq) = {})
  /\ [](\A i \in 1..Len(hist) :
          hist[i].calls > 0 => hist[i].Op = "Create" /\ hist[i].isfile = "yes")
  /\ [][ (Filtered /\ fs[event.Name].kind # "file")
           => /\ pc' = "Idle"
              /\ hist'[Len(hist)].isfile = "no"
              /\ log' = log
              /\ fs' = fs ]_vars
  /\ [][ (Len(hist') > Len(hist) /\ hist'[Len(hist')].Op # "Create")
           => /\ pc' = "Idle"
              /\ log' = log
              /\ fs' = fs ]_vars

\* an event of another kind was passed over, and so was the created event
\* of a directory whose name matches the patterns
C11_Witness ==
  \E i, j \in 1..Len(hist) :
    /\ hist[i].Op # "Create" /\ hist[i].fin
    /\ hist[j].Op = "Create" /\ hist[j].fin /\ hist[j].isfile = "no"
    /\ fs[hist[j].Name].kind = "dir"
    /\ ~Unmatched(hist[j].Name)

\* event j is a later created event for the path of event i, whose
\* transfer failed
Retrigger(i, j) ==
  /\ i < j
  /\ hist[i].Name = hist[j].Name
  /\ hist[i].Op = "Create" /\ hist[j].Op = "Create"
  /\ Failed(i)

\* C12: a created event for a path whose earlier transfer failed is handled
\* by the same rules as the first: when the path is a regular file it is
\* filtered the same way, EmailFile is called once more, and after success
\* the relocation is run; equal outcomes leave equal log lines.
C12_NoDedupState ==
  \A i, j \in 1..Len(hist) :
    (Retrigger(i, j) /\ hist[j].fin /\ hist[j].isfile = "yes") =>
      /\ hist[j].matched = hist[i].matched
      /\ hist[j].calls = 1
      /\ hist[j].result \in {"attach", "send", "ok"}
      /\ hist[j].result = "ok" =>
           hist[j].mkdir # "none" /\ hist[j].rename # "none"
      /\ hist[j].result = hist[i].result =>
           /\ hist[j].sends = hist[i].sends
           /\ {log[k].msg : k \in LinesOf(hist[j].seq)}
                = {log[k].msg : k \in LinesOf(hist[i].seq)}

\* the transfer for a path failed, the path was created again, and this
\* time the file was sent and moved
C12_Witness ==
  \E i, j \in 1..Len(hist) :
    /\ Retrigger(i, j)
    /\ hist[j].fin /\ hist[j].result = "ok" /\ hist[j].rename = "ok"
    /\ fs[Processed(hist[j].Name)].kind = "file"

\* the extension with one leading separator taken off
Stripped(e) == IF e # <<>> /\ e[1] = "." THEN Tail(e) ELSE e

\* the characters of p[1..j-1] that consume a character of the text
Consumers(p, j) == Cardinality({i \in 1..(j - 1) : p[i] \notin {"^", "$"}})

\* p is a regular expression and some substring of x, starting after a
\* characters, is in its language: every literal meets its character, "^"
\* stands only at the start of x and "$" only at its end
Matches(p, x) ==
  /\ \A j \in 1..Len(p) : p[j] # "("
  /\ \E a \in 0..Len(x) :
       /\ a + Consumers(p, Len(p) + 1) <= Len(x)
       /\ \A j \in 1..Len(p) :
            LET at == a + Consumers(p, j)
            IN  IF p[j] = "^" THEN at = 0
                ELSE IF p[j] = "$" THEN at = Len(x)
                ELSE IF p[j] = "." THEN TRUE
                ELSE x[at + 1] = p[j]

\* C13: ExtensionMatched(P, e) is true if and only if some pattern of P, as
\* an unanchored regular expression, matches e without one leading
\* separator; for empty P it is false.
C13_MatchesIffSomePattern ==
  call.done =>
    /\ call.ret <=> \E k \in 1..Len(call.templates) :
                      Matches(call.templates[k], Stripped(call.ext))
    /\ call.templates = <<>> => ~call.ret

\* the second pattern matched inside the extension, not at its start, after
\* one of two leading separators was taken off
C13_Witness ==
  /\ call.done
  /\ call.ret
  /\ call.ext = <<".", ".", "z">>
  /\ call.templates = << <<"^", "z">>, <<"z">> >>

\* C15: a pattern that does not compile counts as not matching and does not
\* end the evaluation: a pattern after it that compiles and matches makes
\* the result true, and a list of such patterns alone gives false.
C15_MalformedPatternSkipped ==
  call.done =>
    /\ (\E k \in 1..Len(call.templates) :
          /\ ~Malformed(call.templates[k])
          /\ Matches(call.templates[k], Stripped(call.ext))) => call.ret
    /\ (\A k \in 1..Len(call.templates) : Malformed(call.templates[k]))
         => ~call.ret

\* the first pattern does not compile, the second matches, the result is
\* true
C15_Witness ==
  /\ call.done
  /\ call.ret
  /\ Len(call.templates) = 2
  /\ Malformed(call.templates[1])
  /\ Matches(call.templates[2], Stripped(call.ext))

\* the transfer call of the event being handled does not return
Hung == Len(hist) > 0 /\ Last.result = "hung"

\* C14: there is no timeout: once a transfer call does not return, the
\* goroutine stays in it; it receives no further event and no watcher
\* error, writes no line and moves no file, whatever arrives meanwhile.
C14_HungTransferStalls ==
  /\ [](Hung => pc = "Blocked" /\ ~Last.fin /\ Last.seq = event.seq)
  /\ [][ Hung
           => /\ UNCHANGED <<pc, event, hist, log>>
              /\ ProgramStep => fs' = fs
              /\ ~eventsClosed' => Len(Events') >= Len(Events)
              /\ ~errorsClosed' => Len(Errors') >= Len(Errors) ]_vars

\* a transfer call hangs while the watch goes on and a later file event or
\* a watcher error waits
C14_Witness ==
  /\ Hung
  /\ Watching
  /\ Len(Events) + Len(Errors) > 0

\* the events whose os.Rename put something at path p of watch/save
MovedTo(p) ==
  {i \in 1..Len(hist) : hist[i].rename = "ok" /\ Processed(hist[i].Name) = p}

\* C16: watch/save holds, under each base name, what the most recent
\* successful os.Rename to that name moved, whatever was there before, and
\* nothing under a name no os.Rename moved anything to.
C16_LastWriterWins ==
  \A p \in SavePaths :
    IF MovedTo(p) = {}
    THEN fs[p] = NoNode
    ELSE LET last == CHOOSE i \in MovedTo(p) : \A j \in MovedTo(p) : j <= i
         IN  fs[p] = hist[last].moved

\* two files of one base name were sent and moved, the second replaced the
\* first in watch/save
C16_Witness ==
  \E i, j \in 1..Len(hist) :
    /\ i < j
    /\ hist[i].Name = hist[j].Name
    /\ hist[i].result = "ok" /\ hist[i].rename = "ok"
    /\ hist[j].result = "ok" /\ hist[j].rename = "ok"
    /\ hist[i].moved.kind = "file" /\ hist[j].moved.kind = "file"
    /\ hist[i].moved.data # hist[j].moved.data
    /\ fs[Processed(hist[j].Name)] = hist[j].moved

\* C18: what the watcher reports of the relocation itself (the directory
\* watch/save created, the file gone from the watched folder) causes no
\* EmailFile call, no relocation and no log line; every call is for a
\* created event of the environment, and a file that was moved to
\* watch/save is not attached again by a later event.
C18_RelocationTriggersNothing ==
  /\ \A i \in 1..Len(hist) :
       hist[i].by = "prog" =>
         /\ hist[i].Op = "Rename" \/ (hist[i].Op = "Create" /\ hist[i].Name = SaveDir)
         /\ hist[i].calls = 0 /\ hist[i].sends = 0
         /\ hist[i].result = "none"
         /\ hist[i].mkdir = "none" /\ hist[i].rename = "none"
         /\ LinesOf(hist[i].seq) = {}
         /\ hist[i].isfile # "yes"
  /\ \A i \in 1..Len(hist) :
       hist[i].calls > 0 => hist[i].by = "env" /\ hist[i].Op = "Create"
  /\ \A i, j \in 1..Len(hist) :
       (i < j /\ hist[i].rename = "ok" /\ hist[i].moved.kind = "file"
        /\ hist[j].data # 0)
         => hist[j].data # hist[i].moved.data
  /\ \A k \in 1..Len(Events) : Events[k].Name \in WatchPaths

\* a file was sent and moved, and the goroutine has passed over both events
\* of that relocation: the created directory watch/save and the file's
\* leaving
C18_Witness ==
  \E i, j, k \in 1..Len(hist) :
    /\ hist[i].result = "ok" /\ hist[i].rename = "ok" /\ hist[i].mkdir = "ok"
    /\ hist[j].by = "prog" /\ hist[j].Op = "Create" /\ hist[j].fin
    /\ hist[j].Name = SaveDir /\ hist[j].isfile = "no"
    /\ hist[k].by = "prog" /\ hist[k].Op = "Rename" /\ hist[k].fin
    /\ hist[k].Name = hist[i].Name

\* C19: once the watch has started the operator's stop can be taken whatever
\* the goroutine is doing, main then leaves without waiting for the
\* goroutine, and after the process has ended the goroutine takes no further
\* step: the event in flight stays as it was.
C19_StopNeverWaits ==
  /\ mainpc = "Scanln" => ENABLED Stop
  /\ mainpc = "Closing" => ENABLED Exit
  /\ mainpc = "Exited" => ~ENABLED Loop

\* the operator stopped between the transfer and the relocation: the file was
\* sent, the process has ended, and the file is still in the watched folder
C19_Witness ==
  /\ mainpc = "Exited"
  /\ Len(hist) > 0
  /\ Last.result = "ok" /\ Last.rename = "none" /\ ~Last.fin
  /\ pc \in {"Relocating", "Renaming"}
  /\ fs[Last.Name].kind = "file"
  /\ \A p \in SavePaths : fs[p] = NoNode

\* the event with sequence number n has been received and handled, and the
\* goroutine was back at the select after it; a created regular file of a
\* matching extension has then been sent or has a failed transfer
Consumed(n) ==
  /\ Len(hist) >= n
  /\ hist[n].seq = n
  /\ hist[n].fin
  /\ (hist[n].isfile = "yes" /\ hist[n].matched = "yes")
       => hist[n].result \in {"ok", "attach", "send"}

\* some event the watcher has delivered is still in the channel or in the
\* goroutine's hands
Unconsumed == \E n \in 1..nSeq : ~Consumed(n)

\* C17: while every transfer returns and no channel is closed, whenever a
\* delivered event is not yet consumed, the goroutine eventually is back at
\* the select with every event delivered until then consumed: received,
\* handled to its end and, for a matching created file, sent or failed.
C17_EveryEventConsumed ==
  Unconsumed ~> (pc = "Idle" /\ ~Unconsumed)

\* a failed transfer and a later sent file, both handled to their end, with
\* nothing left in the channel
C17_Witness ==
  /\ pc = "Idle" /\ Events = <<>> /\ nSeq > 0
  /\ \A n \in 1..nSeq : Consumed(n)
  /\ \E i, j \in 1..Len(hist) :
       /\ i < j
       /\ Failed(i)
       /\ hist[j].result = "ok"

====
